---- MODULE Spec2Model ----
(***************************************************************************)
(* Client-side session synchronisation controller of the chat front end:   *)
(* credential store, auth bootstrap, route guard (stores/auth, router),    *)
(* and the ChatUI conversation buffer, turn dispatcher and reconciler.     *)
(***************************************************************************)
EXTENDS Integers, Sequences, FiniteSets, TLC

\* ------------------------------------------------------------------ bounds
MaxNav == 3          \* navigations (guard invocations) per page load
MaxTurns == 5        \* turns held by the conversation buffer
MaxIdFields == 2     \* identifier fields present in one remote response
MaxUpserts == 2      \* autoSaveUpsert calls of the reconciler harness
MaxItems == 3        \* items of one api.chats.list response

\* ------------------------------------------------------------ value domains
NULL == "NULL"       \* JS null / undefined / absent field

Navs == 1..MaxNav

Usernames == {"alice"}

EMPTY == ""          \* JS empty string (falsy, but not nullish)

\* JS truthiness of a string-or-null value
Truthy(x) == x # NULL /\ x # EMPTY

\* server-side chat identifiers
Ids == {"A", "B"}

IdVals == Ids \cup {NULL, EMPTY}

\* what the user may have typed into the composer
LongText == "Tell me about the election today"

RawInputs == {"", "  ", "hello", " Tell me about the election today "}

\* what the user types in the runs of the whole component
SendInputs == {"", "  ", " hello "}

\* String.prototype.trim on the texts of the model
Trim(raw) ==
  CASE raw = "  " -> ""
    [] raw = " hello " -> "hello"
    [] raw = " Tell me about the election today " -> LongText
    [] OTHER -> raw

\* the literal send uses for a turn with files and no text
AttachOnlyText == "(files attached)"

\* the literal send starts reply with
NoReplyText == "(no reply content)"

\* the literal of the catch block of send
Apology == "(sorry, something went wrong)"

\* the literal autoSaveUpsert falls back to for the title seed
DefaultTitle == "(new chat)"

TitleLen == 20

\* String.prototype.slice(0, TitleLen) on the texts of the model: only
\* LongText (32 characters) is longer than TitleLen
Slice20(t) ==
  CASE t = LongText -> "Tell me about the el"
    [] OTHER -> t

\* the reply field of a chat response: its JS type and value
ReplyFields ==
  { [type |-> "string", val |-> "answer"],
    [type |-> "undefined", val |-> NULL],
    [type |-> "number", val |-> "42"] }

TitleShapes ==
  { [meta_title |-> NULL, title |-> NULL],
    [meta_title |-> "Srv1", title |-> NULL],
    [meta_title |-> NULL, title |-> "Srv2"],
    [meta_title |-> "Srv1", title |-> "Srv2"] }

PresentCount(r) ==
  (IF r.meta_chat_id # NULL THEN 1 ELSE 0) + (IF r.chat_id # NULL THEN 1 ELSE 0)
  + (IF r.id # NULL THEN 1 ELSE 0) + (IF r.meta_id # NULL THEN 1 ELSE 0)

IdShapes ==
  { r \in [meta_chat_id : IdVals, chat_id : IdVals, id : IdVals,
           meta_id : IdVals] : PresentCount(r) <= MaxIdFields }

\* the bodies the chat and save calls answer with in the runs of the whole
\* component: identifier under chat_id or absent, title under title or absent
CoreShapes ==
  { [meta_chat_id |-> NULL, chat_id |-> c, id |-> NULL, meta_id |-> NULL,
     meta_title |-> NULL, title |-> t] : c \in IdVals, t \in {NULL, "Srv2"} }

\* JSON bodies a remote call may answer with (identifier and title part)
RespShapes ==
  { [meta_chat_id |-> i.meta_chat_id, chat_id |-> i.chat_id, id |-> i.id,
     meta_id |-> i.meta_id, meta_title |-> t.meta_title, title |-> t.title] :
      i \in IdShapes, t \in TitleShapes }

\* routes of router/index.ts with a meta record; the catch-all record is a
\* redirect to "/" that vue-router resolves before any guard runs
RoutePaths == {"/", "/login", "/register"}

requiresAuth(path) == path = "/"

guestOnly(path) == path \in {"/login", "/register"}

\* navigation targets: a matched route and the full path (path + query)
Targets ==
  { [path |-> "/", fullPath |-> "/"],
    [path |-> "/", fullPath |-> "/?from=mail"],
    [path |-> "/login", fullPath |-> "/login"],
    [path |-> "/register", fullPath |-> "/register"] }

\* ------------------------------------------------------------------- state
VARIABLES
  token,        \* localStorage["token"]
  authState,    \* reactive {authed, username, bootstrapped}
  didBootstrap, \* router/index.ts module flag
  navPc,        \* per guard invocation: "idle" | "me_wait" | "done"
  navTo,        \* per guard invocation: its target
  navResult,    \* per guard invocation: what the guard returned
  navThrew,     \* per guard invocation: bootstrapAuth rejected
  navMeCalls,   \* per guard invocation: api.auth.me calls its bootstrap made
  navOutcome,   \* per guard invocation: how its bootstrapAuth call ended
  meCalls,      \* api.auth.me calls issued by bootstrapAuth this page load
  \* ChatUI component
  messages,     \* the conversation buffer: sequence of [role, text]
  loading,      \* the in-flight flag of send
  currentChatId,
  currentTitle,
  sessionChatId, \* sessionStorage["currentChatId"]
  me,           \* the username fetchMe resolved, or NULL
  mountPc,      \* ChatUI: "unmounted", or onMounted at "me_wait" |
                \* "list_wait" | "done"
  sendPc,       \* send: "idle" | "chat_wait" | "save_wait" | "list_wait"
  chatCalls,    \* chat-completion calls that have not settled
  saveReq,      \* the api.chats.save call autoSaveUpsert is awaiting
  loadReq,      \* the chat id loadChat is awaiting api.chats.get for
  deletePc,     \* deleteChat: "idle" | "delete_wait" | "list_wait"
  deleteTarget, \* the chat id deleteChat was called with
  deletingId,
  \* remote session store (reconciler harness)
  storeIds,     \* identifiers of the records the store holds
  storeTurns,   \* identifier -> messages of the record
  upserts,      \* autoSaveUpsert calls made by the harness
  prevUpsert,   \* the save call of the previous completed autoSaveUpsert
  repeated,     \* an autoSaveUpsert repeated the previous one and completed
  \* history of the run
  lastOp,       \* the step taken last: "send" (the send handler was
                \* entered), "send_empty" | "send_anon" (it was entered while
                \* idle with nothing to send | with no user identity), "new"
                \* (newChat), "reset" (clearChat ran otherwise
                \* or loadChat replaced the buffer), "resp_no_id" (send or
                \* autoSaveUpsert handled a response without any identifier
                \* field), "resp_no_reply" | "resp_no_id_no_reply" (send
                \* handled a chat response without a string reply),
                \* "title_meta" | "title_plain" | "title_none" (the
                \* autoSaveUpsert of the reconciler harness handled a response
                \* with meta.title | with title only | with neither),
                \* "send_caught" | "send_threw" (a call of send
                \* failed and send returned | rejected), "deleted_open" | "deleted_other" (api.chats.delete
                \* resolved for the open chat | for another chat), "logout",
                \* "login", "reload", "delete_alert", "resend_ok",
                \* "resend_failed", "other"
  sendPos,      \* index at which the running send appended its user turn
  sendText,     \* text of that user turn
  sendStale,    \* the buffer was cleared or replaced since that append
  sendCleared,  \* clearChat ran since that append
  sessSaved,    \* an autoSaveUpsert of the current session has succeeded
  loginPc,      \* where the onLogin of the login view stands: "idle",
                \* "signin_wait", "resend_wait", "backend_wait",
                \* "signout_unverified", "signout_error"
  fbUser,       \* the user Firebase Auth holds as signed in: NULL,
                \* "verified" or "unverified" (emailVerified)
  restored,     \* currentChatId was read from sessionStorage when this
                \* ChatUI instance was set up, and the session has not been
                \* reset nor upserted since
  saveFailed,   \* the last autoSaveUpsert of the current session failed on
                \* its create path and the session has no serverId
  \* history list
  history,      \* the history index: sequence of [chat_id, title, created_at]
  lastList      \* items of the list response refreshList processed last

authVars ==
  <<token, authState, didBootstrap, navPc, navTo, navResult, navThrew,
    navMeCalls, navOutcome, meCalls, loginPc, fbUser>>

chatRefs ==
  <<messages, loading, currentChatId, currentTitle, sessionChatId, me,
    mountPc, sendPc, chatCalls, saveReq, loadReq, deletePc, deleteTarget,
    deletingId, sendPos, sendText, sendStale, sendCleared, sessSaved>>

chatVars == <<chatRefs, lastOp>>

storeVars == <<storeIds, storeTurns, upserts, prevUpsert, repeated>>

listVars == <<history, lastList>>

vars == <<authVars, chatVars, storeVars, listVars, saveFailed, restored>>

\* -------------------------------------------------------- credential store
setToken(t) == IF t # NULL /\ t # "" THEN t ELSE NULL

getToken == token

\* ------------------------------------------------------------- stores/auth
authStateInit == [authed |-> FALSE, username |-> NULL, bootstrapped |-> FALSE]

\* bootstrapAuth, branch without a stored token
bootstrapNoToken(as) ==
  [as EXCEPT !.authed = FALSE, !.username = NULL, !.bootstrapped = TRUE]

\* bootstrapAuth, try branch followed by finally; body is me?.username ?? null
bootstrapMeOk(as, body) ==
  [as EXCEPT !.authed = TRUE, !.username = body, !.bootstrapped = TRUE]

\* bootstrapAuth, catch branch followed by finally
bootstrapMeFail(as) ==
  [as EXCEPT !.authed = FALSE, !.username = NULL, !.bootstrapped = TRUE]

\* the catch branch without its setToken(null)
bootstrapFailToken_kept(t) == t

\* the token after the catch branch
bootstrapFailToken(t) == setToken(NULL)

\* a logout that resets bootstrapped as well
logoutState_unboot(as) ==
  [as EXCEPT !.authed = FALSE, !.username = NULL, !.bootstrapped = FALSE]

\* AuthState after logout()
logoutState(as) ==
  [as EXCEPT !.authed = FALSE, !.username = NULL, !.bootstrapped = TRUE]

\* AuthState after syncBackendSession: username = resp?.username || display
loginState(as, u) == [as EXCEPT !.username = u, !.authed = TRUE]

\* whether bootstrapAuth rejects when api.auth.me rejects (the catch has no
\* rethrow)
bootstrapFailThrows == FALSE

\* ---------------------------------------------------------- router guard
Allow == [kind |-> "allow", path |-> NULL, redirect |-> NULL]

RedirectLogin(fullPath) ==
  [kind |-> "redirect", path |-> "/login", redirect |-> fullPath]

RedirectHome == [kind |-> "redirect", path |-> "/", redirect |-> NULL]

\* the guard passing to.path where the code passes to.fullPath
guardDecision_path(to, authed) ==
  IF requiresAuth(to.path) /\ ~authed THEN RedirectLogin(to.path)
  ELSE IF guestOnly(to.path) /\ authed THEN RedirectHome
  ELSE Allow

\* the body of router.beforeEach after the bootstrap
guardDecision(to, authed) ==
  IF requiresAuth(to.path) /\ ~authed THEN RedirectLogin(to.fullPath)
  ELSE IF guestOnly(to.path) /\ authed THEN RedirectHome
  ELSE Allow

\* bootstrapAuth without its early return for a missing token
bootstrapNeedsMe_always == ~authState.bootstrapped

\* whether bootstrapAuth goes on to the identity check
bootstrapNeedsMe == ~authState.bootstrapped /\ getToken # NULL

\* router.beforeEach is entered for a navigation; it runs up to its first
\* suspension on the network (api.auth.me) or to its return
NavStart(n, to) ==
  /\ UNCHANGED <<loginPc, fbUser>>
  /\ UNCHANGED restored
  /\ UNCHANGED saveFailed
  /\ navPc[n] = "idle"
  /\ \A m \in Navs : m < n => navPc[m] # "idle"
  /\ navTo' = [navTo EXCEPT ![n] = to]
  /\ IF ~didBootstrap /\ bootstrapNeedsMe
       THEN /\ navPc' = [navPc EXCEPT ![n] = "me_wait"]
            /\ meCalls' = meCalls + 1
            /\ navMeCalls' = [navMeCalls EXCEPT ![n] = @ + 1]
            /\ UNCHANGED <<token, authState, didBootstrap, navResult, navThrew,
                           navOutcome>>
       ELSE /\ authState' =
                 IF ~didBootstrap /\ ~authState.bootstrapped
                   THEN bootstrapNoToken(authState)
                   ELSE authState
            /\ didBootstrap' = TRUE
            /\ navResult' =
                 [navResult EXCEPT ![n] = guardDecision(to, authState'.authed)]
            /\ navPc' = [navPc EXCEPT ![n] = "done"]
            /\ navOutcome' =
                 [navOutcome EXCEPT
                    ![n] = IF didBootstrap THEN "not_called"
                           ELSE IF authState.bootstrapped THEN "returned"
                           ELSE "no_token"]
            /\ UNCHANGED <<token, navThrew, navMeCalls, meCalls>>
  /\ lastOp' = "other"
  /\ UNCHANGED <<chatRefs, storeVars, listVars>>

\* api.auth.me resolves with a body; bootstrapAuth finishes and the guard
\* continues in the same turn of the event loop
NavMeOk(n, body) ==
  /\ UNCHANGED <<loginPc, fbUser>>
  /\ UNCHANGED restored
  /\ UNCHANGED saveFailed
  /\ navPc[n] = "me_wait"
  /\ authState' = bootstrapMeOk(authState, body)
  /\ didBootstrap' = TRUE
  /\ navResult' =
       [navResult EXCEPT ![n] = guardDecision(navTo[n], authState'.authed)]
  /\ navPc' = [navPc EXCEPT ![n] = "done"]
  /\ navOutcome' = [navOutcome EXCEPT ![n] = "me_ok"]
  /\ UNCHANGED <<token, navTo, navThrew, navMeCalls, meCalls>>
  /\ lastOp' = "other"
  /\ UNCHANGED <<chatRefs, storeVars, listVars>>

\* api.auth.me rejects (HTTP error, transport error, unparsable body)
NavMeFail(n) ==
  /\ UNCHANGED <<loginPc, fbUser>>
  /\ UNCHANGED restored
  /\ UNCHANGED saveFailed
  /\ navPc[n] = "me_wait"
  /\ token' = bootstrapFailToken(token)
  /\ authState' = bootstrapMeFail(authState)
  /\ navThrew' = [navThrew EXCEPT ![n] = bootstrapFailThrows]
  /\ IF bootstrapFailThrows
       THEN /\ navPc' = [navPc EXCEPT ![n] = "done"]
            /\ UNCHANGED <<didBootstrap, navResult>>
       ELSE /\ didBootstrap' = TRUE
            /\ navResult' =
                 [navResult EXCEPT
                    ![n] = guardDecision(navTo[n], authState'.authed)]
            /\ navPc' = [navPc EXCEPT ![n] = "done"]
  /\ navOutcome' = [navOutcome EXCEPT ![n] = "me_fail"]
  /\ UNCHANGED <<navTo, navMeCalls, meCalls>>
  /\ lastOp' = "other"
  /\ UNCHANGED <<chatRefs, storeVars, listVars>>

\* the view of "/" (ChatUI) is on screen: a navigation to it was let through
ChatShown ==
  \E n \in Navs :
    navPc[n] = "done" /\ requiresAuth(navTo[n].path) /\ navResult[n] = Allow

\* the login view is on screen: a navigation to it was let through, or the
\* guard redirected there
LoginShown ==
  \E n \in Navs :
    /\ navPc[n] = "done"
    /\ \/ navTo[n].path = "/login" /\ navResult[n] = Allow
       \/ navResult[n].path = "/login"

\* stores/auth logout(), called from the ChatUI view
logout ==
  /\ UNCHANGED <<loginPc, fbUser>>
  /\ UNCHANGED restored
  /\ UNCHANGED saveFailed
  /\ ChatShown
  /\ token' = setToken(NULL)
  /\ authState' = logoutState(authState)
  /\ lastOp' = "logout"
  /\ UNCHANGED <<didBootstrap, navPc, navTo, navResult, navThrew, navMeCalls,
                 navOutcome, meCalls>>
  /\ UNCHANGED <<chatRefs, storeVars, listVars>>

\* navigation m put the login view on screen
ShowsLogin(m) ==
  /\ navPc[m] = "done"
  /\ \/ navTo[m].path = "/login" /\ navResult[m] = Allow
     \/ navResult[m].path = "/login"

\* route.query.redirect of the login view that navigation m put on screen:
\* what the guard passed, or absent or empty when /login was entered directly
loginQueries(m) ==
  IF navResult[m].path = "/login" THEN {navResult[m].redirect}
  ELSE {NULL, EMPTY}

\* a login view that always continues to "/"
redirectTarget_home(q) == "/"

\* redirectTarget of the login view: typeof q === "string" && q ? q : "/"
redirectTarget(q) == IF Truthy(q) THEN q ELSE "/"

\* the route a full path resolves to
resolveRoute(fullPath) == CHOOSE t \in Targets : t.fullPath = fullPath

\* api.auth.firebaseLogin: if (r?.access_token) setToken(r.access_token)
firebaseLoginToken(tok, access) ==
  IF Truthy(access) THEN setToken(access) ELSE tok

\* access_token fields of a 200 response of /api/v1/auth/firebase-login
AccessTokens == {"tok", NULL}

\* the login view is on screen: the navigation started last has finished and
\* put it there
LoginCurrent ==
  \E m \in Navs : ShowsLogin(m) /\ \A k \in Navs : k > m => navPc[k] = "idle"

\* what an onLogin step leaves alone
LoginStepFrame ==
  /\ UNCHANGED <<token, authState, didBootstrap, navPc, navTo, navResult,
                 navThrew, navMeCalls, navOutcome, meCalls>>
  /\ UNCHANGED <<chatRefs, storeVars, listVars, saveFailed, restored>>

\* onLogin of the login view, up to the await of signInWithEmail (submitting
\* is true from here to the finally block)
onLoginSubmit ==
  /\ LoginCurrent
  /\ loginPc = "idle"
  /\ loginPc' = "signin_wait"
  /\ lastOp' = "other"
  /\ UNCHANGED fbUser
  /\ LoginStepFrame

\* signInWithEmail resolves: a verified user goes on to syncBackendSession
\* (getIdToken, then the api.auth.firebaseLogin call), an unverified one to
\* sendVerificationEmail
signInOk(verified) ==
  /\ loginPc = "signin_wait"
  /\ fbUser' = IF verified THEN "verified" ELSE "unverified"
  /\ loginPc' = IF verified THEN "backend_wait" ELSE "resend_wait"
  /\ lastOp' = "other"
  /\ LoginStepFrame

\* signInWithEmail rejects: the catch block calls the Firebase logout
signInFail ==
  /\ loginPc = "signin_wait"
  /\ loginPc' = "signout_error"
  /\ lastOp' = "other"
  /\ UNCHANGED fbUser
  /\ LoginStepFrame

\* sendVerificationEmail settles: either way the finally block calls the
\* Firebase logout
resendDone(ok) ==
  /\ loginPc = "resend_wait"
  /\ loginPc' = "signout_unverified"
  /\ lastOp' = IF ok THEN "resend_ok" ELSE "resend_failed"
  /\ UNCHANGED fbUser
  /\ LoginStepFrame

\* getIdToken or api.auth.firebaseLogin rejects: the catch block calls the
\* Firebase logout
backendFail ==
  /\ loginPc = "backend_wait"
  /\ loginPc' = "signout_error"
  /\ lastOp' = "other"
  /\ UNCHANGED fbUser
  /\ LoginStepFrame

\* services/firebase logout (signOut) resolves; onLogin returns
signOutDone ==
  /\ loginPc \in {"signout_unverified", "signout_error"}
  /\ loginPc' = "idle"
  /\ fbUser' = NULL
  /\ lastOp' = "other"
  /\ LoginStepFrame

\* the login view shown by navigation m: api.auth.firebaseLogin resolves,
\* syncBackendSession writes the identity into AuthState and the
\* router.replace(redirectTarget.value) of onLogin runs the guard as
\* navigation n (a view is on screen, so the guard has bootstrapped before)
syncBackendSession(u, access, m, q, n) ==
  /\ UNCHANGED restored
  /\ UNCHANGED saveFailed
  /\ loginPc = "backend_wait"
  /\ loginPc' = "idle"
  /\ UNCHANGED fbUser
  /\ ShowsLogin(m)
  /\ q \in loginQueries(m)
  /\ didBootstrap
  /\ navPc[n] = "idle"
  /\ \A k \in Navs : k < n => navPc[k] # "idle"
  /\ token' = firebaseLoginToken(token, access)
  /\ authState' = loginState(authState, u)
  /\ navTo' = [navTo EXCEPT ![n] = resolveRoute(redirectTarget(q))]
  /\ navResult' =
       [navResult EXCEPT ![n] = guardDecision(navTo'[n], authState'.authed)]
  /\ navPc' = [navPc EXCEPT ![n] = "done"]
  /\ navOutcome' = [navOutcome EXCEPT ![n] = "not_called"]
  /\ lastOp' = "login"
  /\ UNCHANGED <<didBootstrap, navThrew, navMeCalls, meCalls>>
  /\ UNCHANGED <<chatRefs, storeVars, listVars>>

\* ------------------------------------------------------------------ ChatUI
UserTurn(text) == [role |-> "user", text |-> text]

BotTurn(text) == [role |-> "bot", text |-> text]

\* addMessage
addMessage(msgs, role, text) == Append(msgs, [role |-> role, text |-> text])

\* resolveUserId
resolveUserId == IF Truthy(me) THEN me ELSE NULL

\* pickChatId: a chain of ?? over meta.chat_id, chat_id, id, meta.id
pickChatId(resp) ==
  IF resp.meta_chat_id # NULL THEN resp.meta_chat_id
  ELSE IF resp.chat_id # NULL THEN resp.chat_id
  ELSE IF resp.id # NULL THEN resp.id
  ELSE IF resp.meta_id # NULL THEN resp.meta_id
  ELSE NULL

\* a pickTitle without its fallback
pickTitle_noFallback(resp, fallback) ==
  IF resp.meta_title # NULL THEN resp.meta_title
  ELSE IF resp.title # NULL THEN resp.title
  ELSE NULL

\* pickTitle: meta.title ?? title ?? fallback ?? null
pickTitle(resp, fallback) ==
  IF resp.meta_title # NULL THEN resp.meta_title
  ELSE IF resp.title # NULL THEN resp.title
  ELSE fallback

\* a messages.map of autoSaveUpsert that leaves out the first turn
toPayload_tail(msgs) ==
  [i \in 1..(Len(msgs) - 1) |->
     [role |-> IF msgs[i + 1].role = "bot" THEN "assistant" ELSE "user",
      content |-> msgs[i + 1].text]]

\* the messages.map of autoSaveUpsert
toPayload(msgs) ==
  [i \in 1..Len(msgs) |->
     [role |-> IF msgs[i].role = "bot" THEN "assistant" ELSE "user",
      content |-> msgs[i].text]]

\* the messages.map of loadChat
fromPayload(items) ==
  [i \in 1..Len(items) |->
     [role |-> IF items[i].role = "assistant" THEN "bot" ELSE "user",
      text |-> items[i].content]]

\* messages.find((m) => m.role === "user")?.text
firstUserText(msgs) ==
  IF \E i \in 1..Len(msgs) : msgs[i].role = "user"
    THEN msgs[CHOOSE i \in 1..Len(msgs) :
                /\ msgs[i].role = "user"
                /\ \A j \in 1..(i - 1) : msgs[j].role # "user"].text
    ELSE NULL

\* titleSeed of autoSaveUpsert without its slice(0, 20)
titleSeedOf_whole(msgs) ==
  LET fu == firstUserText(msgs)
  IN  Trim(IF Truthy(fu) THEN fu ELSE DefaultTitle)

\* titleSeed of autoSaveUpsert
titleSeedOf(msgs) ==
  LET fu == firstUserText(msgs)
  IN  Slice20(Trim(IF Truthy(fu) THEN fu ELSE DefaultTitle))

\* api.chats.save that leaves chat_id out of the body
chatsSave_noId(payload, title, chatId) ==
  [messages |-> payload,
   chat_id |-> NULL,
   title |-> IF Truthy(title) THEN title ELSE NULL]

\* api.chats.save: the JSON body it posts
chatsSave(payload, title, chatId) ==
  [messages |-> payload,
   chat_id |-> IF Truthy(chatId) THEN chatId ELSE NULL,
   title |-> IF Truthy(chatId) THEN NULL
             ELSE IF Truthy(title) THEN title ELSE NULL]

\* a response body that has none of the identifier fields
respCarriesNoId(resp) ==
  /\ resp.meta_chat_id = NULL /\ resp.chat_id = NULL
  /\ resp.id = NULL /\ resp.meta_id = NULL

NoReq ==
  [branch |-> "none", sid |-> NULL, titleSeed |-> NULL,
   body |-> [messages |-> <<>>, chat_id |-> NULL, title |-> NULL]]

\* autoSaveUpsert up to its await: the branch taken, the currentChatId it
\* read, its titleSeed and the call made
upsertRequest(msgs, cid) ==
  IF Truthy(cid)
    THEN [branch |-> "update", sid |-> cid, titleSeed |-> NULL,
          body |-> chatsSave(toPayload(msgs), NULL, cid)]
    ELSE [branch |-> "create", sid |-> NULL, titleSeed |-> titleSeedOf(msgs),
          body |-> chatsSave(toPayload(msgs), titleSeedOf(msgs), NULL)]

\* autoSaveUpsert after its await: the id it assigns to currentChatId
upsertId(req, resp, cid) ==
  IF req.branch = "update"
    THEN IF Truthy(pickChatId(resp)) THEN pickChatId(resp) ELSE cid
    ELSE pickChatId(resp)

\* autoSaveUpsert after its await: the title it assigns to currentTitle
upsertTitle(req, resp, title) ==
  IF req.branch = "update" THEN pickTitle(resp, title)
  ELSE pickTitle(resp, req.titleSeed)

\* if (id) sessionStorage.setItem("currentChatId", id)
storeSessionId(id, old) == IF Truthy(id) THEN id ELSE old

\* send after the chat call: the id left in currentChatId
sendChatId(resp, cid) ==
  IF Truthy(pickChatId(resp)) THEN pickChatId(resp) ELSE cid

\* send after the chat call: the title left in currentTitle
sendTitle(resp, title) ==
  IF Truthy(pickTitle(resp, title)) THEN pickTitle(resp, title) ELSE title

\* a send that takes data.reply whatever its type
replyText_raw(reply) == reply.val

\* send after the chat call: the reply text
replyText(reply) == IF reply.type = "string" THEN reply.val ELSE NoReplyText

\* send without its loading test
sendBusy_never == FALSE

\* the first test of send
sendBusy == loading

\* the early returns of send without the one for an unresolved identity
sendRejects_noIdentity(raw, files) ==
  \/ sendBusy
  \/ (~Truthy(Trim(raw)) /\ files = 0)

\* the early returns of send
sendRejects(raw, files) ==
  \/ sendBusy
  \/ (~Truthy(Trim(raw)) /\ files = 0)
  \/ resolveUserId = NULL

\* the user turn send appends
sendUserText(raw, files) ==
  IF Truthy(Trim(raw)) THEN Trim(raw) ELSE AttachOnlyText

\* a catch block of send that throws again
catchRethrows_yes == TRUE

\* whether send rejects when a call inside its try block failed (the catch
\* block has no throw)
catchRethrows == FALSE

\* a finally block of send that leaves loading as it is
finallyLoading_skipped == loading

\* the finally block of send: loading.value = false
finallyLoading == FALSE

\* the catch block of send dropping the optimistic user turn
catchMessages_rollback(msgs) ==
  addMessage(SubSeq(msgs, 1, Len(msgs) - 1), "bot", Apology)

\* the catch block of send
catchMessages(msgs) == addMessage(msgs, "bot", Apology)

\* created_at strings of list items
Dates == {"2024-05-01T08:00:00", "2024-05-02T08:00:00", "2024-05-03T08:00:00"}

\* new Date(created_at).getTime() on the strings of the model, in days
getTime(d) ==
  CASE d = "2024-05-01T08:00:00" -> 19844
    [] d = "2024-05-02T08:00:00" -> 19845
    [] d = "2024-05-03T08:00:00" -> 19846

\* items a list response may carry: repeated ids with different titles and
\* times, equal times under different ids, an item without chat_id
ListEntries ==
  { [chat_id |-> "A", title |-> "T1", created_at |-> "2024-05-02T08:00:00"],
    [chat_id |-> "A", title |-> "T2", created_at |-> "2024-05-01T08:00:00"],
    [chat_id |-> "B", title |-> "T1", created_at |-> "2024-05-01T08:00:00"],
    [chat_id |-> "B", title |-> "T2", created_at |-> "2024-05-03T08:00:00"],
    [chat_id |-> "C", title |-> "T1", created_at |-> "2024-05-02T08:00:00"],
    [chat_id |-> NULL, title |-> "T2", created_at |-> "2024-05-03T08:00:00"] }

SeqsUpTo(S, n) == UNION { [1..k -> S] : k \in 0..n }

\* r.items of the list responses
ListResps == SeqsUpTo(ListEntries, MaxItems)

\* r.items of the list responses in the runs of the whole component
CoreLists ==
  { <<>>,
    <<[chat_id |-> "A", title |-> "T2", created_at |-> "2024-05-01T08:00:00"],
      [chat_id |-> "B", title |-> "T2", created_at |-> "2024-05-03T08:00:00"],
      [chat_id |-> "A", title |-> "T1", created_at |-> "2024-05-02T08:00:00"]>> }

HasId(rows, id) == \E i \in 1..Len(rows) : rows[i].chat_id = id

\* the for loop of refreshList that always map.set()s (last occurrence wins)
RECURSIVE dedupe_last(_, _)
dedupe_last(items, rows) ==
  IF items = <<>> THEN rows
  ELSE LET x == Head(items)
       IN  dedupe_last(Tail(items),
             IF ~Truthy(x.chat_id) THEN rows
             ELSE IF HasId(rows, x.chat_id)
               THEN [i \in 1..Len(rows) |->
                       IF rows[i].chat_id = x.chat_id THEN x ELSE rows[i]]
               ELSE Append(rows, x))

\* the for loop of refreshList: the values of the Map in insertion order
RECURSIVE dedupe(_, _)
dedupe(items, rows) ==
  IF items = <<>> THEN rows
  ELSE LET x == Head(items)
       IN  dedupe(Tail(items),
             IF ~Truthy(x.chat_id) \/ HasId(rows, x.chat_id) THEN rows
             ELSE Append(rows, x))

\* the comparator of the sort: b.time - a.time
compareRows(a, b) == getTime(b.created_at) - getTime(a.created_at)

\* one step of a stable sort: x goes after every row that does not compare
\* greater than it
RECURSIVE insertRow(_, _)
insertRow(sorted, x) ==
  IF sorted = <<>> THEN <<x>>
  ELSE IF compareRows(Head(sorted), x) <= 0
    THEN <<Head(sorted)>> \o insertRow(Tail(sorted), x)
    ELSE <<x>> \o sorted

\* Array.prototype.sort with compareRows (stable since ES2019)
RECURSIVE sortRows(_, _)
sortRows(rows, sorted) ==
  IF rows = <<>> THEN sorted
  ELSE sortRows(Tail(rows), insertRow(sorted, Head(rows)))

\* the refreshList that keeps the last occurrence of an id
refreshHistory_last(items) == sortRows(dedupe_last(items, <<>>), <<>>)

\* refreshList after its await: the value assigned to history
refreshHistory(items) == sortRows(dedupe(items, <<>>), <<>>)

\* onMounted: fetchMe settles (null on any failure); refreshAll starts
FetchMeDone(u) ==
  /\ UNCHANGED restored
  /\ UNCHANGED saveFailed
  /\ mountPc = "me_wait"
  /\ mountPc' = "list_wait"
  /\ me' = u
  /\ lastOp' = "other"
  /\ UNCHANGED <<messages, loading, currentChatId, currentTitle,
                 sessionChatId, sendPc, chatCalls, saveReq, loadReq, deletePc,
                 deleteTarget, deletingId, sendPos, sendText, sendStale,
                 sendCleared, sessSaved>>
  /\ UNCHANGED <<authVars, storeVars, listVars>>

\* onMounted: the refreshList of refreshAll resolves; the rest of onMounted
\* runs (the currentChatId persisted in sessionStorage is taken when the ref
\* holds none)
MountListOk(items) ==
  /\ UNCHANGED restored
  /\ UNCHANGED saveFailed
  /\ mountPc = "list_wait"
  /\ mountPc' = "done"
  /\ history' = refreshHistory(items)
  /\ lastList' = items
  /\ currentChatId' = IF Truthy(sessionChatId) /\ ~Truthy(currentChatId)
                        THEN sessionChatId ELSE currentChatId
  /\ lastOp' = "other"
  /\ UNCHANGED <<messages, loading, currentTitle, sessionChatId, me, sendPc,
                 chatCalls, saveReq, loadReq, deletePc, deleteTarget,
                 deletingId, sendPos, sendText, sendStale, sendCleared,
                 sessSaved>>
  /\ UNCHANGED <<authVars, storeVars>>

\* onMounted: the refreshList of refreshAll rejects (Promise.allSettled)
MountListFail ==
  /\ UNCHANGED restored
  /\ UNCHANGED saveFailed
  /\ mountPc = "list_wait"
  /\ mountPc' = "done"
  /\ currentChatId' = IF Truthy(sessionChatId) /\ ~Truthy(currentChatId)
                        THEN sessionChatId ELSE currentChatId
  /\ lastOp' = "other"
  /\ UNCHANGED <<messages, loading, currentTitle, sessionChatId, me, sendPc,
                 chatCalls, saveReq, loadReq, deletePc, deleteTarget,
                 deletingId, sendPos, sendText, sendStale, sendCleared,
                 sessSaved>>
  /\ UNCHANGED <<authVars, storeVars, listVars>>

\* send() up to its first await, in a buffer that holds up to cap turns
send(raw, files, cap) ==
  /\ UNCHANGED restored
  /\ UNCHANGED saveFailed
  /\ mountPc # "unmounted"
  /\ sendRejects(raw, files) \/ Len(messages) + 3 <= cap
  /\ lastOp' = IF loading THEN "send"
               ELSE IF ~Truthy(Trim(raw)) /\ files = 0 THEN "send_empty"
               ELSE IF resolveUserId = NULL THEN "send_anon"
               ELSE "send"
  /\ IF sendRejects(raw, files)
       THEN UNCHANGED <<messages, loading, sendPc, chatCalls, sendPos,
                        sendText, sendStale, sendCleared>>
       ELSE /\ messages' = addMessage(messages, "user", sendUserText(raw, files))
            /\ loading' = TRUE
            /\ sendPc' = "chat_wait"
            /\ chatCalls' = chatCalls + 1
            /\ sendPos' = Len(messages) + 1
            /\ sendText' = sendUserText(raw, files)
            /\ sendStale' = FALSE
            /\ sendCleared' = FALSE
  /\ UNCHANGED <<currentChatId, currentTitle, sessionChatId, me, mountPc,
                 saveReq, loadReq, deletePc, deleteTarget, deletingId,
                 sessSaved>>
  /\ UNCHANGED <<authVars, storeVars, listVars>>

\* the chat call resolves with an ok status: send runs on to the await inside
\* autoSaveUpsert
ChatOk(resp, reply) ==
  /\ UNCHANGED restored
  /\ UNCHANGED saveFailed
  /\ sendPc = "chat_wait"
  /\ lastOp' = IF reply.type = "string"
                 THEN IF respCarriesNoId(resp) THEN "resp_no_id" ELSE "other"
                 ELSE IF respCarriesNoId(resp) THEN "resp_no_id_no_reply"
                      ELSE "resp_no_reply"
  /\ chatCalls' = chatCalls - 1
  /\ currentChatId' = sendChatId(resp, currentChatId)
  /\ sessionChatId' = storeSessionId(pickChatId(resp), sessionChatId)
  /\ currentTitle' = sendTitle(resp, currentTitle)
  /\ messages' = addMessage(messages, "bot", replyText(reply))
  /\ saveReq' = upsertRequest(messages', currentChatId')
  /\ sendPc' = "save_wait"
  /\ UNCHANGED <<loading, me, mountPc, loadReq, deletePc, deleteTarget,
                 deletingId, sendPos, sendText, sendStale, sendCleared,
                 sessSaved>>
  /\ UNCHANGED <<authVars, storeVars, listVars>>

\* the chat call rejects or answers with a non-ok status: catch and finally
ChatFail ==
  /\ UNCHANGED restored
  /\ UNCHANGED saveFailed
  /\ sendPc = "chat_wait"
  /\ lastOp' = IF catchRethrows THEN "send_threw" ELSE "send_caught"
  /\ chatCalls' = chatCalls - 1
  /\ messages' = catchMessages(messages)
  /\ loading' = finallyLoading
  /\ sendPc' = "idle"
  /\ sendPos' = 0
  /\ sendText' = NULL
  /\ sendStale' = FALSE
  /\ sendCleared' = FALSE
  /\ UNCHANGED <<currentChatId, currentTitle, sessionChatId, me, mountPc,
                 saveReq, loadReq, deletePc, deleteTarget, deletingId,
                 sessSaved>>
  /\ UNCHANGED <<authVars, storeVars, listVars>>

\* what autoSaveUpsert and send write when api.chats.save resolves with a body
SaveOkRefs(resp) ==
  /\ restored' = FALSE
  /\ saveFailed' = FALSE
  /\ sendPc = "save_wait"
  /\ lastOp' = IF respCarriesNoId(resp) THEN "resp_no_id" ELSE "other"
  /\ currentChatId' = upsertId(saveReq, resp, currentChatId)
  /\ currentTitle' = upsertTitle(saveReq, resp, currentTitle)
  /\ sessionChatId' = storeSessionId(currentChatId', sessionChatId)
  /\ saveReq' = NoReq
  /\ sendPc' = "list_wait"
  /\ sessSaved' = (sessSaved \/ ~sendStale)
  /\ UNCHANGED <<messages, loading, me, mountPc, chatCalls, loadReq, deletePc,
                 deleteTarget, deletingId, sendPos, sendText, sendStale,
                 sendCleared>>
  /\ UNCHANGED <<authVars, listVars>>

\* api.chats.save resolves with a body: autoSaveUpsert finishes and send runs
\* on to the await inside refreshList
SaveOk(resp) ==
  /\ SaveOkRefs(resp)
  /\ UNCHANGED storeVars

\* api.chats.save rejects: the error reaches the catch block of send
SaveFail ==
  /\ restored' = FALSE
  /\ saveFailed' = (saveReq.branch = "create" /\ ~Truthy(currentChatId))
  /\ sendPc = "save_wait"
  /\ lastOp' = IF catchRethrows THEN "send_threw" ELSE "send_caught"
  /\ saveReq' = NoReq
  /\ messages' = catchMessages(messages)
  /\ loading' = finallyLoading
  /\ sendPc' = "idle"
  /\ sendPos' = 0
  /\ sendText' = NULL
  /\ sendStale' = FALSE
  /\ sendCleared' = FALSE
  /\ UNCHANGED <<currentChatId, currentTitle, sessionChatId, me, mountPc,
                 chatCalls, loadReq, deletePc, deleteTarget, deletingId,
                 sessSaved>>
  /\ UNCHANGED <<authVars, storeVars, listVars>>

\* the refreshList of send resolves: history is replaced, finally of
\* refreshList, finally of send
ListOk(items) ==
  /\ UNCHANGED restored
  /\ UNCHANGED saveFailed
  /\ sendPc = "list_wait"
  /\ history' = refreshHistory(items)
  /\ lastList' = items
  /\ lastOp' = "other"
  /\ loading' = finallyLoading
  /\ sendPc' = "idle"
  /\ sendPos' = 0
  /\ sendText' = NULL
  /\ sendStale' = FALSE
  /\ sendCleared' = FALSE
  /\ UNCHANGED <<messages, currentChatId, currentTitle, sessionChatId, me,
                 mountPc, chatCalls, saveReq, loadReq, deletePc, deleteTarget,
                 deletingId, sessSaved>>
  /\ UNCHANGED <<authVars, storeVars>>

\* the refreshList of send rejects: the error reaches the catch block of send
ListFail ==
  /\ UNCHANGED restored
  /\ UNCHANGED saveFailed
  /\ sendPc = "list_wait"
  /\ lastOp' = IF catchRethrows THEN "send_threw" ELSE "send_caught"
  /\ messages' = catchMessages(messages)
  /\ loading' = finallyLoading
  /\ sendPc' = "idle"
  /\ sendPos' = 0
  /\ sendText' = NULL
  /\ sendStale' = FALSE
  /\ sendCleared' = FALSE
  /\ UNCHANGED <<currentChatId, currentTitle, sessionChatId, me, mountPc,
                 chatCalls, saveReq, loadReq, deletePc, deleteTarget,
                 deletingId, sessSaved>>
  /\ UNCHANGED <<authVars, storeVars, listVars>>

\* clearChat up to its best-effort memory/clear call, whose outcome is ignored
clearChat ==
  /\ messages' = <<>>
  /\ currentChatId' = NULL
  /\ sessionChatId' = NULL
  /\ currentTitle' = NULL
  /\ sendStale' = (sendStale \/ sendPc # "idle")
  /\ sendCleared' = (sendCleared \/ sendPc # "idle")
  /\ sessSaved' = FALSE
  /\ saveFailed' = FALSE
  /\ restored' = FALSE

\* the new-conversation buttons and Ctrl/Cmd+N: both are inert while loading
newChat ==
  /\ ~loading
  /\ mountPc = "done"
  /\ clearChat
  /\ lastOp' = "new"
  /\ UNCHANGED <<loading, me, mountPc, sendPc, chatCalls, saveReq, loadReq,
                 deletePc, deleteTarget, deletingId, sendPos, sendText>>
  /\ UNCHANGED <<authVars, storeVars, listVars>>

\* askHighlight: clearChat, then the question is put into the composer
askHighlight ==
  /\ mountPc = "done"
  /\ clearChat
  /\ lastOp' = "reset"
  /\ UNCHANGED <<loading, me, mountPc, sendPc, chatCalls, saveReq, loadReq,
                 deletePc, deleteTarget, deletingId, sendPos, sendText>>
  /\ UNCHANGED <<authVars, storeVars, listVars>>

\* a deleteChat that clears the buffer whatever chat was deleted
deleteClears_always(cid, chatId) == TRUE

\* deleteChat after api.chats.delete: currentChatId.value === chatId
deleteClears(cid, chatId) == cid = chatId

\* a finally block of deleteChat that leaves the deleting marker set
finallyDeletingId_kept == deletingId

\* the finally block of deleteChat: deletingId.value = null
finallyDeletingId == NULL

\* deleteChat(chatId) after the confirm, up to the await of api.chats.delete
DeleteStart(chatId) ==
  /\ UNCHANGED restored
  /\ UNCHANGED saveFailed
  /\ deletePc = "idle"
  /\ loadReq = NULL
  /\ mountPc = "done"
  /\ deletePc' = "delete_wait"
  /\ deleteTarget' = chatId
  /\ deletingId' = chatId
  /\ lastOp' = "other"
  /\ UNCHANGED <<messages, loading, currentChatId, currentTitle,
                 sessionChatId, me, mountPc, sendPc, chatCalls, saveReq,
                 loadReq, sendPos, sendText, sendStale, sendCleared, sessSaved>>
  /\ UNCHANGED <<authVars, storeVars, listVars>>

\* api.chats.delete resolves: clearChat if the open chat was deleted, then
\* the await inside refreshList
DeleteOk ==
  /\ deletePc = "delete_wait"
  /\ deletePc' = "list_wait"
  /\ lastOp' = IF deleteClears(currentChatId, deleteTarget)
                 THEN "deleted_open" ELSE "deleted_other"
  /\ IF deleteClears(currentChatId, deleteTarget)
       THEN clearChat
       ELSE UNCHANGED <<messages, currentChatId, sessionChatId, currentTitle,
                        sendStale, sendCleared, sessSaved, saveFailed,
                        restored>>
  /\ UNCHANGED <<loading, me, mountPc, sendPc, chatCalls, saveReq, loadReq,
                 deleteTarget, deletingId, sendPos, sendText>>
  /\ UNCHANGED <<authVars, storeVars, listVars>>

\* api.chats.delete rejects: the catch block shows the alert (recorded in
\* lastOp), then finally
DeleteFail ==
  /\ UNCHANGED restored
  /\ UNCHANGED saveFailed
  /\ deletePc = "delete_wait"
  /\ deletePc' = "idle"
  /\ deletingId' = finallyDeletingId
  /\ deleteTarget' = NULL
  /\ lastOp' = "delete_alert"
  /\ UNCHANGED <<messages, loading, currentChatId, currentTitle,
                 sessionChatId, me, mountPc, sendPc, chatCalls, saveReq,
                 loadReq, sendPos, sendText, sendStale, sendCleared, sessSaved>>
  /\ UNCHANGED <<authVars, storeVars, listVars>>

\* the refreshList of deleteChat resolves: history is replaced, finally
DeleteListOk(items) ==
  /\ UNCHANGED restored
  /\ UNCHANGED saveFailed
  /\ deletePc = "list_wait"
  /\ deletePc' = "idle"
  /\ deletingId' = finallyDeletingId
  /\ deleteTarget' = NULL
  /\ history' = refreshHistory(items)
  /\ lastList' = items
  /\ lastOp' = "other"
  /\ UNCHANGED <<messages, loading, currentChatId, currentTitle,
                 sessionChatId, me, mountPc, sendPc, chatCalls, saveReq,
                 loadReq, sendPos, sendText, sendStale, sendCleared, sessSaved>>
  /\ UNCHANGED <<authVars, storeVars>>

\* the refreshList of deleteChat rejects: alert, then finally
DeleteListFail ==
  /\ UNCHANGED restored
  /\ UNCHANGED saveFailed
  /\ deletePc = "list_wait"
  /\ deletePc' = "idle"
  /\ deletingId' = finallyDeletingId
  /\ deleteTarget' = NULL
  /\ lastOp' = "delete_alert"
  /\ UNCHANGED <<messages, loading, currentChatId, currentTitle,
                 sessionChatId, me, mountPc, sendPc, chatCalls, saveReq,
                 loadReq, sendPos, sendText, sendStale, sendCleared, sessSaved>>
  /\ UNCHANGED <<authVars, storeVars, listVars>>

\* records api.chats.get may answer with
LoadedBuffers ==
  { <<>>,
    <<[role |-> "user", content |-> "hello"],
      [role |-> "assistant", content |-> "answer"]>> }

\* loadChat(chatId) up to the await of api.chats.get
LoadStart(chatId) ==
  /\ UNCHANGED restored
  /\ UNCHANGED saveFailed
  /\ loadReq = NULL
  /\ deletePc = "idle"
  /\ mountPc = "done"
  /\ loadReq' = chatId
  /\ lastOp' = "other"
  /\ UNCHANGED <<messages, loading, currentChatId, currentTitle,
                 sessionChatId, me, mountPc, sendPc, chatCalls, saveReq,
                 deletePc, deleteTarget, deletingId, sendPos, sendText,
                 sendStale, sendCleared, sessSaved>>
  /\ UNCHANGED <<authVars, storeVars, listVars>>

\* api.chats.get resolves with data = {chat_id, title, messages}
LoadOk(dataId, dataTitle, items) ==
  /\ restored' = FALSE
  /\ saveFailed' = FALSE
  /\ loadReq # NULL
  /\ loadReq' = NULL
  /\ lastOp' = "reset"
  /\ messages' = fromPayload(items)
  /\ currentChatId' = IF Truthy(dataId) THEN dataId ELSE loadReq
  /\ currentTitle' = IF Truthy(dataTitle) THEN dataTitle ELSE NULL
  /\ sessionChatId' = IF Truthy(currentChatId') THEN currentChatId' ELSE NULL
  /\ sendStale' = (sendStale \/ sendPc # "idle")
  /\ sessSaved' = FALSE
  /\ UNCHANGED <<loading, me, mountPc, sendPc, chatCalls, saveReq, deletePc,
                 deleteTarget, deletingId, sendPos, sendText, sendCleared>>
  /\ UNCHANGED <<authVars, storeVars, listVars>>

\* api.chats.get rejects: the catch block is empty
LoadFail ==
  /\ UNCHANGED restored
  /\ UNCHANGED saveFailed
  /\ loadReq # NULL
  /\ loadReq' = NULL
  /\ lastOp' = "other"
  /\ UNCHANGED <<messages, loading, currentChatId, currentTitle,
                 sessionChatId, me, mountPc, sendPc, chatCalls, saveReq,
                 deletePc, deleteTarget, deletingId, sendPos, sendText,
                 sendStale, sendCleared, sessSaved>>
  /\ UNCHANGED <<authVars, storeVars, listVars>>

\* the targets of the router.replace calls of onLogout and of the login view
LoginTarget == [path |-> "/login", fullPath |-> "/login"]

HomeTarget == [path |-> "/", fullPath |-> "/"]

\* sessionStorage.getItem("currentChatId") || null
persistedChatId == IF Truthy(sessionChatId) THEN sessionChatId ELSE NULL

\* onLogout after the confirm, taken while no call of the component is in
\* flight: logout(), then router.replace("/login") is let through by the
\* guard and the ChatUI instance is unmounted with its refs
onLogout ==
  /\ UNCHANGED <<loginPc, fbUser>>
  /\ restored' = FALSE
  /\ saveFailed' = FALSE
  /\ mountPc = "done"
  /\ sendPc = "idle" /\ loadReq = NULL /\ deletePc = "idle"
  /\ token' = setToken(NULL)
  /\ authState' = logoutState(authState)
  /\ guardDecision(LoginTarget, authState'.authed) = Allow
  /\ mountPc' = "unmounted"
  /\ messages' = <<>>
  /\ currentChatId' = NULL
  /\ currentTitle' = NULL
  /\ me' = NULL
  /\ history' = <<>>
  /\ lastList' = <<>>
  /\ sessSaved' = FALSE
  /\ lastOp' = "logout"
  /\ UNCHANGED <<didBootstrap, navPc, navTo, navResult, navThrew, navMeCalls,
                 navOutcome, meCalls>>
  /\ UNCHANGED <<loading, sessionChatId, sendPc, chatCalls, saveReq, loadReq,
                 deletePc, deleteTarget, deletingId, sendPos, sendText,
                 sendStale, sendCleared>>
  /\ UNCHANGED storeVars

\* the login view signs in: syncBackendSession, then router.replace("/") is
\* let through by the guard and a new ChatUI instance is set up (currentChatId
\* is read from sessionStorage, fetchMe of onMounted starts)
onLogin(u) ==
  /\ UNCHANGED <<loginPc, fbUser>>
  /\ restored' = Truthy(sessionChatId)
  /\ UNCHANGED saveFailed
  /\ mountPc = "unmounted"
  /\ token' = setToken("tok")
  /\ authState' = loginState(authState, u)
  /\ guardDecision(HomeTarget, authState'.authed) = Allow
  /\ mountPc' = "me_wait"
  /\ currentChatId' = persistedChatId
  /\ lastOp' = "login"
  /\ UNCHANGED <<didBootstrap, navPc, navTo, navResult, navThrew, navMeCalls,
                 navOutcome, meCalls>>
  /\ UNCHANGED <<messages, loading, currentTitle, sessionChatId, me, sendPc,
                 chatCalls, saveReq, loadReq, deletePc, deleteTarget,
                 deletingId, sendPos, sendText, sendStale, sendCleared,
                 sessSaved>>
  /\ UNCHANGED <<storeVars, listVars>>

\* the page is reloaded in the same tab while the token is still valid: every
\* call in flight is dropped, the guard lets the navigation to "/" through and
\* a new ChatUI instance is set up (currentChatId is read from sessionStorage,
\* fetchMe of onMounted starts)
Reload ==
  /\ mountPc # "unmounted"
  /\ guardDecision(HomeTarget, authState.authed) = Allow
  /\ messages' = <<>>
  /\ loading' = FALSE
  /\ currentChatId' = persistedChatId
  /\ currentTitle' = NULL
  /\ me' = NULL
  /\ mountPc' = "me_wait"
  /\ sendPc' = "idle"
  /\ chatCalls' = 0
  /\ saveReq' = NoReq
  /\ loadReq' = NULL
  /\ deletePc' = "idle"
  /\ deleteTarget' = NULL
  /\ deletingId' = NULL
  /\ sendPos' = 0
  /\ sendText' = NULL
  /\ sendStale' = FALSE
  /\ sendCleared' = FALSE
  /\ sessSaved' = FALSE
  /\ saveFailed' = FALSE
  /\ restored' = Truthy(sessionChatId)
  /\ history' = <<>>
  /\ lastList' = <<>>
  /\ lastOp' = "reload"
  /\ UNCHANGED sessionChatId
  /\ UNCHANGED <<authVars, storeVars>>

\* ------------------------------------------- reconciler against a store
\* identifiers the store can give to new records
StoreIds == Ids \cup {"C", "D"}

\* the identifier the store gives to the next new record
FreshId(ids) == CHOOSE i \in StoreIds : i \notin ids

\* POST /api/v1/chats/save: a body without chat_id makes a new record, a
\* body with chat_id replaces the messages of that record
storeSaveIds(ids, body) ==
  IF body.chat_id # NULL THEN ids \cup {body.chat_id}
  ELSE ids \cup {FreshId(ids)}

storeSaveTurns(ids, turns, body) ==
  IF body.chat_id # NULL
    THEN [turns EXCEPT ![body.chat_id] = body.messages]
    ELSE [turns EXCEPT ![FreshId(ids)] = body.messages]

\* the body the store answers a served save call with: the identifier of the
\* record it wrote
storeSaveResponse(ids, body) ==
  [meta_chat_id |-> NULL,
   chat_id |-> IF body.chat_id # NULL THEN body.chat_id ELSE FreshId(ids),
   id |-> NULL, meta_id |-> NULL, meta_title |-> NULL, title |-> NULL]

\* the store serves the api.chats.save call of a send and answers with the
\* record's identifier; autoSaveUpsert finishes and send runs on to the await
\* inside refreshList
SaveStored ==
  /\ saveReq # NoReq
  /\ saveReq.body.chat_id # NULL \/ StoreIds \ storeIds # {}
  /\ SaveOkRefs(storeSaveResponse(storeIds, saveReq.body))
  /\ storeIds' = storeSaveIds(storeIds, saveReq.body)
  /\ storeTurns' = storeSaveTurns(storeIds, storeTurns, saveReq.body)
  /\ UNCHANGED <<upserts, prevUpsert, repeated>>

\* buffers the harness starts from
StartBuffers ==
  { <<>>,
    <<UserTurn("hello")>>,
    <<UserTurn(LongText), BotTurn("answer")>> }

\* a turn is appended to the buffer between two autoSaveUpsert calls
AppendTurn(role, text) ==
  /\ UNCHANGED restored
  /\ UNCHANGED saveFailed
  /\ saveReq = NoReq
  /\ Len(messages) < MaxTurns
  /\ upserts < MaxUpserts
  /\ messages' = addMessage(messages, role, text)
  /\ UNCHANGED <<loading, currentChatId, currentTitle, sessionChatId, me,
                 mountPc, sendPc, chatCalls, saveReq, loadReq, deletePc,
                 deleteTarget, deletingId, lastOp, sendPos, sendText,
                 sendStale, sendCleared, sessSaved>>
  /\ UNCHANGED <<authVars, storeVars, listVars>>

\* autoSaveUpsert() up to the await of api.chats.save
UpsertCall ==
  /\ UNCHANGED restored
  /\ UNCHANGED saveFailed
  /\ saveReq = NoReq
  /\ upserts < MaxUpserts
  /\ upserts' = upserts + 1
  /\ saveReq' = IF Len(messages) = 0 THEN NoReq
                ELSE upsertRequest(messages, currentChatId)
  /\ UNCHANGED <<messages, loading, currentChatId, currentTitle,
                 sessionChatId, me, mountPc, sendPc, chatCalls, loadReq,
                 deletePc, deleteTarget, deletingId, lastOp, sendPos, sendText,
                 sendStale, sendCleared, sessSaved>>
  /\ UNCHANGED <<authVars, storeIds, storeTurns, prevUpsert, repeated, listVars>>

\* the store serves the call and answers resp; autoSaveUpsert finishes
UpsertOk(resp) ==
  /\ UNCHANGED restored
  /\ UNCHANGED saveFailed
  /\ saveReq # NoReq
  /\ saveReq.body.chat_id # NULL \/ StoreIds \ storeIds # {}
  /\ storeIds' = storeSaveIds(storeIds, saveReq.body)
  /\ storeTurns' = storeSaveTurns(storeIds, storeTurns, saveReq.body)
  /\ currentChatId' = upsertId(saveReq, resp, currentChatId)
  /\ currentTitle' = upsertTitle(saveReq, resp, currentTitle)
  /\ sessionChatId' = storeSessionId(currentChatId', sessionChatId)
  /\ prevUpsert' = saveReq
  /\ repeated' = (/\ saveReq.sid = prevUpsert.sid
                  /\ saveReq.body.messages = prevUpsert.body.messages
                  /\ prevUpsert # NoReq)
  /\ saveReq' = NoReq
  /\ lastOp' = IF resp.meta_title # NULL THEN "title_meta"
               ELSE IF resp.title # NULL THEN "title_plain"
               ELSE "title_none"
  /\ UNCHANGED <<messages, loading, me, mountPc, sendPc, chatCalls, loadReq,
                 deletePc, deleteTarget, deletingId, sendPos, sendText,
                 sendStale, sendCleared, sessSaved>>
  /\ UNCHANGED <<authVars, upserts, listVars>>

\* api.chats.save rejects, the store having served the call or not
UpsertFail(served) ==
  /\ UNCHANGED restored
  /\ UNCHANGED saveFailed
  /\ saveReq # NoReq
  /\ saveReq.body.chat_id # NULL \/ StoreIds \ storeIds # {}
  /\ storeIds' = IF served THEN storeSaveIds(storeIds, saveReq.body)
                 ELSE storeIds
  /\ storeTurns' = IF served
                     THEN storeSaveTurns(storeIds, storeTurns, saveReq.body)
                     ELSE storeTurns
  /\ prevUpsert' = NoReq
  /\ repeated' = FALSE
  /\ saveReq' = NoReq
  /\ UNCHANGED <<messages, loading, currentChatId, currentTitle,
                 sessionChatId, me, mountPc, sendPc, chatCalls, loadReq,
                 deletePc, deleteTarget, deletingId, lastOp, sendPos, sendText,
                 sendStale, sendCleared, sessSaved>>
  /\ UNCHANGED <<authVars, upserts, listVars>>

\* --------------------------------------------------------- specifications
InitAuth ==
  /\ token \in {NULL, "tok"}
  /\ authState = authStateInit
  /\ didBootstrap = FALSE
  /\ navPc = [n \in Navs |-> "idle"]
  /\ navTo = [n \in Navs |-> NULL]
  /\ navResult = [n \in Navs |-> NULL]
  /\ navThrew = [n \in Navs |-> FALSE]
  /\ navMeCalls = [n \in Navs |-> 0]
  /\ navOutcome = [n \in Navs |-> "none"]
  /\ meCalls = 0
  /\ loginPc = "idle"
  /\ fbUser = NULL

\* ChatUI right after setup: refs at their initial values, currentChatId read
\* from sessionStorage, fetchMe of onMounted in flight
InitChat ==
  /\ messages = <<>>
  /\ loading = FALSE
  /\ sessionChatId \in {NULL, "A"}
  /\ currentChatId = sessionChatId
  /\ currentTitle = NULL
  /\ me = NULL
  /\ mountPc = "me_wait"
  /\ sendPc = "idle"
  /\ chatCalls = 0
  /\ saveReq = NoReq
  /\ loadReq = NULL
  /\ deletePc = "idle"
  /\ deleteTarget = NULL
  /\ deletingId = NULL
  /\ lastOp = "init"
  /\ sendPos = 0
  /\ sendText = NULL
  /\ sendStale = FALSE
  /\ sendCleared = FALSE
  /\ sessSaved = FALSE
  /\ history = <<>>
  /\ lastList = <<>>
  /\ restored = Truthy(sessionChatId)
  /\ saveFailed = FALSE

InitStore ==
  /\ storeIds = {}
  /\ storeTurns = [i \in StoreIds |-> <<>>]
  /\ upserts = 0
  /\ prevUpsert = NoReq
  /\ repeated = FALSE

ChatIdle ==
  /\ messages = <<>>
  /\ loading = FALSE
  /\ sessionChatId = NULL
  /\ currentChatId = NULL
  /\ currentTitle = NULL
  /\ me = NULL
  /\ mountPc = "me_wait"
  /\ sendPc = "idle"
  /\ chatCalls = 0
  /\ saveReq = NoReq
  /\ loadReq = NULL
  /\ deletePc = "idle"
  /\ deleteTarget = NULL
  /\ deletingId = NULL
  /\ lastOp = "init"
  /\ sendPos = 0
  /\ sendText = NULL
  /\ sendStale = FALSE
  /\ sendCleared = FALSE
  /\ sessSaved = FALSE
  /\ history = <<>>
  /\ lastList = <<>>
  /\ restored = FALSE
  /\ saveFailed = FALSE

AuthIdle ==
  /\ token = "tok"
  /\ authState = [authed |-> TRUE, username |-> "alice", bootstrapped |-> TRUE]
  /\ didBootstrap = TRUE
  /\ navPc = [n \in Navs |-> "idle"]
  /\ navTo = [n \in Navs |-> NULL]
  /\ navResult = [n \in Navs |-> NULL]
  /\ navThrew = [n \in Navs |-> FALSE]
  /\ navMeCalls = [n \in Navs |-> 0]
  /\ navOutcome = [n \in Navs |-> "none"]
  /\ meCalls = 1
  /\ loginPc = "idle"
  /\ fbUser = "verified"

NextAuth ==
  \/ \E n \in Navs, to \in Targets : NavStart(n, to)
  \/ \E n \in Navs, body \in Usernames \cup {NULL} : NavMeOk(n, body)
  \/ \E n \in Navs : NavMeFail(n)
  \/ logout
  \/ onLoginSubmit
  \/ \E verified \in BOOLEAN : signInOk(verified)
  \/ signInFail
  \/ \E ok \in BOOLEAN : resendDone(ok)
  \/ backendFail
  \/ signOutDone
  \/ \E u \in Usernames, access \in AccessTokens, m \in Navs, n \in Navs,
        q \in {NULL, EMPTY} \cup {t.fullPath : t \in Targets} :
       syncBackendSession(u, access, m, q, n)

InitGuard == InitAuth /\ ChatIdle /\ InitStore

SpecAuth == InitGuard /\ [][NextAuth]_vars

Init == AuthIdle /\ InitChat /\ InitStore

Next ==
  \/ \E u \in Usernames \cup {NULL} : FetchMeDone(u)
  \/ \E items \in CoreLists : MountListOk(items)
  \/ MountListFail
  \/ \E raw \in SendInputs, files \in {0, 1} : send(raw, files, MaxTurns)
  \/ \E resp \in CoreShapes, reply \in ReplyFields : ChatOk(resp, reply)
  \/ ChatFail
  \/ \E resp \in CoreShapes : SaveOk(resp)
  \/ SaveFail
  \/ \E items \in CoreLists : ListOk(items)
  \/ ListFail
  \/ newChat
  \/ askHighlight
  \/ \E chatId \in Ids : DeleteStart(chatId)
  \/ DeleteOk
  \/ DeleteFail
  \/ \E items \in CoreLists : DeleteListOk(items)
  \/ DeleteListFail
  \/ \E chatId \in Ids : LoadStart(chatId)
  \/ \E dataId \in Ids \cup {NULL}, dataTitle \in {NULL, "Srv2"},
        items \in LoadedBuffers : LoadOk(dataId, dataTitle, items)
  \/ LoadFail
  \/ onLogout
  \/ \E u \in Usernames : onLogin(u)
  \/ Reload

Spec == Init /\ [][Next]_vars

\* the reconciler alone: a buffer, a known id or none, a store that holds the
\* record of the known id or nothing
InitUpsert ==
  /\ AuthIdle
  /\ messages \in StartBuffers
  /\ currentChatId \in Ids \cup {NULL}
  /\ sessionChatId = currentChatId
  /\ currentTitle \in {NULL, "Srv1"}
  /\ storeIds \in {{}, {"B"}} \cup {{currentChatId} \cap Ids}
  /\ storeTurns = [i \in StoreIds |-> <<>>]
  /\ upserts = 0
  /\ prevUpsert = NoReq
  /\ repeated = FALSE
  /\ loading = FALSE
  /\ me = "alice"
  /\ mountPc = "done"
  /\ sendPc = "idle"
  /\ chatCalls = 0
  /\ saveReq = NoReq
  /\ loadReq = NULL
  /\ deletePc = "idle"
  /\ deleteTarget = NULL
  /\ deletingId = NULL
  /\ lastOp = "init"
  /\ sendPos = 0
  /\ sendText = NULL
  /\ sendStale = FALSE
  /\ sendCleared = FALSE
  /\ sessSaved = FALSE
  /\ history = <<>>
  /\ lastList = <<>>
  /\ restored = FALSE
  /\ saveFailed = FALSE

NextUpsert ==
  \/ AppendTurn("bot", "answer")
  \/ UpsertCall
  \/ \E resp \in RespShapes : UpsertOk(resp)
  \/ \E served \in BOOLEAN : UpsertFail(served)

SpecUpsert == InitUpsert /\ [][NextUpsert]_vars

\* a network call the running send awaits settles, either way
SendSettles ==
  \/ \E resp \in CoreShapes, reply \in ReplyFields : ChatOk(resp, reply)
  \/ ChatFail
  \/ \E resp \in CoreShapes : SaveOk(resp)
  \/ SaveFail
  \/ \E items \in CoreLists : ListOk(items)
  \/ ListFail

\* mounting, sending and resetting, without the history list handlers
NextLive ==
  \/ \E u \in Usernames \cup {NULL} : FetchMeDone(u)
  \/ \E items \in CoreLists : MountListOk(items)
  \/ MountListFail
  \/ \E raw \in SendInputs, files \in {0, 1} : send(raw, files, MaxTurns)
  \/ SendSettles
  \/ newChat
  \/ askHighlight

\* mounting, sending and resetting, with room in the buffer for a send after
\* a send whose upsert failed
NextRetry ==
  \/ \E u \in Usernames : FetchMeDone(u)
  \/ \E items \in CoreLists : MountListOk(items)
  \/ MountListFail
  \/ \E raw \in SendInputs, files \in {0, 1} :
       send(raw, files, MaxTurns + 1)
  \/ SendSettles
  \/ newChat
  \/ askHighlight

SpecRetry == Init /\ [][NextRetry]_vars

\* sending against a store that keeps what it is sent, with page reloads (the
\* history list stays empty, a send starts in a buffer of at most
\* MaxTurns - 5 turns)
NextStore ==
  \/ \E u \in Usernames : FetchMeDone(u)
  \/ MountListOk(<<>>)
  \/ \E raw \in SendInputs, files \in {0, 1} : send(raw, files, MaxTurns - 2)
  \/ \E resp \in CoreShapes, reply \in ReplyFields : ChatOk(resp, reply)
  \/ ChatFail
  \/ SaveStored
  \/ SaveFail
  \/ ListOk(<<>>)
  \/ Reload

SpecStore == Init /\ [][NextStore]_vars

\* the turn dispatcher under the assumption that no call of a send stays
\* pending for ever
SpecLive == Init /\ [][NextLive]_vars /\ WF_vars(SendSettles)

\* the history list alone: the refreshes of onMounted and of deleteChat over
\* the list responses
NextList ==
  \/ \E u \in Usernames : FetchMeDone(u)
  \/ \E items \in ListResps : MountListOk(items)
  \/ MountListFail
  \/ \E chatId \in Ids : DeleteStart(chatId)
  \/ DeleteOk
  \/ DeleteFail
  \/ \E items \in ListResps : DeleteListOk(items)
  \/ DeleteListFail

SpecList == Init /\ [][NextList]_vars

\* ------------------------------------------------------------------ claims
Unauthenticated == [authed |-> FALSE, username |-> NULL, bootstrapped |-> TRUE]

\* C4: bootstrapAuth issues its identity check (api.auth.me) at most once per
\* page load, however the guard invocations of concurrent navigations
\* interleave.
C4_AtMostOneIdentityCheck == meCalls <= 1

\* C5: when a credential is present and the identity check fails, the step
\* that ends bootstrapAuth leaves AuthState {bootstrapped, not authed, no
\* username}, clears the stored credential and does not reject to its caller.
C5_FailedCheckDegrades ==
  [][\A n \in Navs :
       (navOutcome[n] # "me_fail" /\ navOutcome'[n] = "me_fail") =>
         /\ authState' = Unauthenticated
         /\ token' = NULL
         /\ ~navThrew'[n]]_vars

C5_Witness ==
  \E n \in Navs :
    /\ navOutcome[n] = "me_fail"
    /\ navMeCalls[n] = 1
    /\ token = NULL
    /\ authState = Unauthenticated

\* C6: a bootstrapAuth call entered with no stored credential sets AuthState
\* to {bootstrapped, not authed, no username} in the same step and issues no
\* identity check.
C6_NoCredentialNoNetwork ==
  [][\A n \in Navs :
       (/\ navPc[n] = "idle" /\ navPc'[n] # "idle"
        /\ ~didBootstrap /\ ~authState.bootstrapped /\ token = NULL) =>
         /\ authState' = Unauthenticated
         /\ meCalls' = meCalls
         /\ navMeCalls'[n] = 0
         /\ navPc'[n] = "done"]_vars

C6_Witness ==
  \E n \in Navs :
    /\ navOutcome[n] = "no_token"
    /\ meCalls = 0
    /\ authState = Unauthenticated

\* the decision table of the route guard, row by row
DecisionTable(to, authed) ==
  CASE requiresAuth(to.path) /\ ~authed ->
         [kind |-> "redirect", path |-> "/login", redirect |-> to.fullPath]
    [] requiresAuth(to.path) /\ authed -> Allow
    [] guestOnly(to.path) /\ authed ->
         [kind |-> "redirect", path |-> "/", redirect |-> NULL]
    [] guestOnly(to.path) /\ ~authed -> Allow
    [] OTHER -> Allow

\* C7: whenever the guard returns for a navigation, what it returns is the
\* row of the decision table selected by the target's meta and by
\* AuthState.authed at that moment; a redirect to /login carries the target's
\* full path.
C7_GuardFollowsTable ==
  [][\A n \in Navs :
       (navPc[n] # "done" /\ navPc'[n] = "done" /\ ~navThrew'[n]) =>
         navResult'[n] = DecisionTable(navTo'[n], authState'.authed)]_vars

C7_Witness ==
  /\ \E n \in Navs :
       /\ navPc[n] = "done"
       /\ navTo[n].fullPath = "/?from=mail"
       /\ navResult[n] = RedirectLogin("/?from=mail")
  /\ \E n \in Navs :
       /\ navPc[n] = "done"
       /\ guestOnly(navTo[n].path)
       /\ navResult[n] = RedirectHome

\* steps of the running send, told by its position
StepChatOk == sendPc = "chat_wait" /\ sendPc' = "save_wait"

\* (a page reload drops the pending call instead of settling it)
StepChatFail ==
  sendPc = "chat_wait" /\ sendPc' = "idle" /\ lastOp' # "reload"

StepSaveOk == sendPc = "save_wait" /\ sendPc' = "list_wait"

StepSaveFail ==
  sendPc = "save_wait" /\ sendPc' = "idle" /\ lastOp' # "reload"

IsCreateWithTitle(req) ==
  req.branch = "create" /\ req.body.chat_id = NULL /\ Truthy(req.body.title)

IsUpdateWithoutTitle(req) ==
  req.branch = "update" /\ Truthy(req.body.chat_id) /\ req.body.title = NULL

\* C1: in a session without a known serverId the first upsert is a create
\* call carrying a derived title, and once an upsert of the session has
\* succeeded (whatever body the store answered with) every later upsert of
\* that session is an update call keyed by the serverId, without a title.
C1_CreateOnceThenUpdate ==
  [][(StepChatOk /\ ~sendStale) =>
       /\ (~sessSaved /\ ~Truthy(currentChatId')) => IsCreateWithTitle(saveReq')
       /\ sessSaved =>
            /\ IsUpdateWithoutTitle(saveReq')
            /\ saveReq'.body.chat_id = currentChatId']_vars

\* the steps that handled a response without any identifier field
NoIdOps == {"resp_no_id", "resp_no_id_no_reply"}

\* the steps that end a session: clearChat, loadChat, logout, a new mount
ResetOps == {"new", "reset", "deleted_open", "logout", "login", "reload"}

\* C2: between two resets (clearChat, loadChat) a serverId that is set is
\* never replaced by a different value, whatever the remote responses carry.
C2_ServerIdNeverChanges ==
  [][(Truthy(currentChatId) /\ lastOp' \notin ResetOps) =>
       currentChatId' = currentChatId]_vars

\* C3: when autoSaveUpsert is called again with the same turn sequence and the
\* same serverId as the call before it, the store has no more records after
\* the second call than before it and the record of that serverId holds
\* exactly the turn sequence sent.
C3_RepeatedUpsertIdempotent ==
  [][(/\ saveReq # NoReq /\ saveReq' = NoReq /\ prevUpsert' = saveReq
      /\ saveReq.sid = prevUpsert.sid /\ Truthy(saveReq.sid)
      /\ saveReq.body.messages = prevUpsert.body.messages) =>
       /\ storeIds' = storeIds
       /\ storeTurns'[saveReq.sid] = toPayload(messages)]_vars

C3_Witness ==
  /\ repeated
  /\ upserts >= 2
  /\ Truthy(prevUpsert.sid)
  /\ Len(messages) > 0
  /\ storeTurns[prevUpsert.sid] = toPayload(messages)

NoBotTurnAppended ==
  \A i \in (Len(messages) + 1)..Len(messages') : messages'[i].role # "bot"

\* C9 as stated: when the chat-completion call of a send fails, the user turn
\* appended before the call is still in the buffer and no assistant (bot)
\* turn is appended.
C9_UserTurnKeptNoBotTurn ==
  [][StepChatFail =>
       /\ ~sendStale
       /\ sendPos <= Len(messages')
       /\ messages'[sendPos] = UserTurn(sendText)
       /\ NoBotTurnAppended]_vars

\* C9 amended: when the chat-completion call of a send fails, nothing is
\* removed from the buffer and exactly one turn is appended, the fixed apology
\* with role bot (never a reply); the user turn appended before the call is
\* still there, right before the apology, unless the buffer was cleared or
\* replaced while the call was in flight.
C9_UserTurnKeptApologyAppended ==
  [][StepChatFail =>
       /\ messages' = Append(messages, BotTurn(Apology))
       /\ ~sendStale =>
            /\ Len(messages) = sendPos
            /\ messages'[sendPos] = UserTurn(sendText)]_vars

C9_Witness ==
  /\ sendPc = "idle"
  /\ ~loading
  /\ Len(messages) >= 2
  /\ messages[Len(messages)] = BotTurn(Apology)
  /\ messages[Len(messages) - 1].role = "user"

\* C10: once clearChat has run while a send is in flight, the resolution of
\* that send's chat call and of its upsert leaves the cleared session alone:
\* no turn is appended, no serverId and no title is set.
C10_NoStaleResurrection ==
  [][(sendCleared /\ (StepChatOk \/ StepChatFail \/ StepSaveOk \/ StepSaveFail))
       => /\ messages' = messages
          /\ currentChatId' = currentChatId
          /\ sessionChatId' = sessionChatId
          /\ currentTitle' = currentTitle]_vars

\* C11: when the upsert call at the end of a successful send fails, the step
\* that handles the failure leaves the conversation buffer as it was: the user
\* turn and the reply stay and no further turn is added.
C11_UpsertFailureLeavesBuffer ==
  [][StepSaveFail => messages' = messages]_vars

\* index of the first item of a list response that carries the id
FirstIndexOf(items, id) ==
  CHOOSE i \in 1..Len(items) :
    /\ items[i].chat_id = id
    /\ \A j \in 1..(i - 1) : items[j].chat_id # id

\* C12: after refreshList has completed on a list response, history holds
\* exactly one row per distinct chat_id of the response, each row carrying the
\* title and creation time of the first item with that chat_id, rows are in
\* descending order of creation time, and no row has a chat_id that the
\* response does not carry.
C12_HistoryIsListDedupedAndSorted ==
  /\ \A k \in 1..Len(lastList) :
       Truthy(lastList[k].chat_id) =>
         /\ Cardinality({i \in 1..Len(history) :
                           history[i].chat_id = lastList[k].chat_id}) = 1
         /\ \E i \in 1..Len(history) :
              history[i] = lastList[FirstIndexOf(lastList, lastList[k].chat_id)]
  /\ \A i \in 1..Len(history) :
       Truthy(history[i].chat_id) /\ HasId(lastList, history[i].chat_id)
  /\ \A i, j \in 1..Len(history) :
       i < j => getTime(history[i].created_at) >= getTime(history[j].created_at)

C12_Witness ==
  /\ Len(lastList) = 3
  /\ lastList[1].chat_id = "A" /\ lastList[3].chat_id = "A"
  /\ lastList[1].title # lastList[3].title
  /\ lastList[2].chat_id = "B"
  /\ getTime(lastList[2].created_at) > getTime(lastList[1].created_at)
  /\ Len(history) = 2
  /\ history[1].chat_id = "B"
  /\ history[2] = lastList[1]
  /\ deletePc = "idle" /\ mountPc = "done"

HasUserTurn(msgs) == \E i \in 1..Len(msgs) : msgs[i].role = "user"

\* C13: when autoSaveUpsert takes its create path, the title it derives and
\* sends is the first 20 characters of the text of the first user turn of the
\* buffer, and the fixed placeholder when the buffer has no user turn.
C13_CreateTitleIsFirst20OrPlaceholder ==
  [][(saveReq = NoReq /\ saveReq' # NoReq /\ saveReq'.branch = "create") =>
       /\ saveReq'.titleSeed =
            IF HasUserTurn(messages') THEN Slice20(firstUserText(messages'))
            ELSE DefaultTitle
       /\ saveReq'.body.title = saveReq'.titleSeed
       /\ saveReq'.body.chat_id = NULL]_vars

C13_Witness ==
  /\ saveReq.branch = "create"
  /\ firstUserText(messages) = LongText
  /\ saveReq.body.title = "Tell me about the el"

\* the value of the first identifier field a response carries, in the order
\* meta.chat_id, chat_id, id, meta.id
FirstPresentId(r) ==
  CASE r.meta_chat_id # NULL -> r.meta_chat_id
    [] r.meta_chat_id = NULL /\ r.chat_id # NULL -> r.chat_id
    [] r.meta_chat_id = NULL /\ r.chat_id = NULL /\ r.id # NULL -> r.id
    [] OTHER -> r.meta_id

\* C14: pickChatId yields the first present one of meta.chat_id, chat_id, id,
\* meta.id, whichever field a response carries the identifier under; and when
\* the response that send or autoSaveUpsert handles carries none of them, the
\* serverId known before that step (or null) is the serverId after it, in the
\* component and in sessionStorage.
C14_IdExtractedOrPreserved ==
  /\ [](\A r \in IdShapes : pickChatId(r) = FirstPresentId(r))
  /\ [][((StepChatOk \/ StepSaveOk) /\ lastOp' \in NoIdOps) =>
          /\ currentChatId' = currentChatId
          /\ sessionChatId' = sessionChatId]_vars

\* C15: loading is set exactly while a network call of an accepted send (the
\* chat call, the upsert, the history refresh) has not settled, and, those
\* calls settling, every accepted send is followed by loading being false,
\* whichever of the calls succeeded or failed.
C15_LoadingEventuallyCleared ==
  /\ [](loading <=> sendPc # "idle")
  /\ (loading ~> ~loading)

C15_Witness ==
  /\ ~loading
  /\ sendPc = "idle"
  /\ Len(messages) = 3
  /\ messages[1].role = "user"
  /\ messages[3] = BotTurn(Apology)

\* C16: the step of send that invokes autoSaveUpsert has appended the reply
\* turn, and the turn sequence that upsert sends ends with the user turn of
\* that send followed by its reply.
C16_UpsertCarriesLatestExchange ==
  [][StepChatOk =>
       LET sent == saveReq'.body.messages
           n == Len(sent)
       IN  /\ Len(messages') = Len(messages) + 1
           /\ messages'[Len(messages')].role = "bot"
           /\ sent = toPayload(messages')
           /\ n >= 2
           /\ sent[n].role = "assistant"
           /\ sent[n - 1] = [role |-> "user", content |-> sendText]]_vars

\* C17: in a send whose chat call succeeded, the history refresh is invoked
\* only once autoSaveUpsert has resolved, and it is invoked when the upsert
\* succeeded and also when it failed.
C17_RefreshAfterUpsertEitherWay ==
  /\ [](sendPc = "list_wait" => saveReq = NoReq)
  /\ [][(StepSaveOk \/ StepSaveFail) => sendPc' = "list_wait"]_vars

\* C19: AuthState starts as {bootstrapped: false, authed: false, username:
\* null}; once bootstrapped is true it stays true under every bootstrap, login
\* and logout, every guard invocation that has finished has left it true, and
\* the step of logout leaves {bootstrapped: true, authed: false, username:
\* null}.
C19_BootstrappedOnceLogoutResets ==
  /\ authState = authStateInit
  /\ [](\A n \in Navs : navPc[n] = "done" => authState.bootstrapped)
  /\ [][authState.bootstrapped => authState'.bootstrapped]_vars
  /\ [][lastOp' = "logout" => authState' = Unauthenticated]_vars

C19_Witness ==
  /\ lastOp = "logout"
  /\ authState = Unauthenticated
  /\ token = NULL
  /\ \E n \in Navs : navOutcome[n] = "me_ok"

SessionEmpty ==
  /\ messages = <<>>
  /\ currentChatId = NULL
  /\ currentTitle = NULL
  /\ sessionChatId = NULL

\* C18: the step of newChat and the step of logout leave the session empty
\* (no turns, no serverId, no title, no serverId in sessionStorage), and the
\* ChatUI set up by a login after a logout in the same tab starts without a
\* serverId.
C18_SessionEmptyAfterNewAndLogout ==
  /\ [][lastOp' \in {"new", "logout"} => SessionEmpty']_vars
  /\ [][lastOp' = "login" => currentChatId' = NULL]_vars

\* C20: when the delete call of deleteChat(chatId) has succeeded, the step
\* that handles it empties the session if chatId was the open chat and leaves
\* buffer, serverId and title as they were if it was not, and in both cases
\* it goes on to refreshList.
C20_DeleteClearsOpenChatThenRefreshes ==
  [][lastOp' \in {"deleted_open", "deleted_other"} =>
       /\ deletePc' = "list_wait"
       /\ IF currentChatId = deleteTarget
            THEN SessionEmpty'
            ELSE /\ messages' = messages
                 /\ currentChatId' = currentChatId
                 /\ currentTitle' = currentTitle
                 /\ sessionChatId' = sessionChatId]_vars

C20_Witness ==
  /\ lastOp = "deleted_other"
  /\ deletePc = "list_wait"
  /\ deleteTarget = "B"
  /\ currentChatId = "A"
  /\ Len(messages) >= 2

\* the payload carries every turn of the buffer, in order
CarriesWholeBuffer(sent, msgs) ==
  /\ Len(sent) = Len(msgs)
  /\ \A i \in 1..Len(msgs) :
       /\ sent[i].content = msgs[i].text
       /\ sent[i].role = IF msgs[i].role = "bot" THEN "assistant" ELSE "user"

\* upsert calls are made by the running send only, and a failed create leaves
\* the turns in place and the session without a serverId
FailedUpsertKeepsLocalOnly ==
  /\ [](saveReq # NoReq => sendPc = "save_wait")
  /\ [][saveReq' # NoReq /\ saveReq' # saveReq => StepChatOk]_vars
  /\ [][(StepSaveFail /\ saveReq.branch = "create") =>
          /\ Len(messages') >= Len(messages)
          /\ SubSeq(messages', 1, Len(messages)) = messages
          /\ (~Truthy(currentChatId) => ~Truthy(currentChatId'))]_vars

\* C21 as stated: a failed reconciliation keeps the session local-only, no
\* upsert is issued outside send, and the upsert of the next send re-sends
\* the whole buffer through the create path.
C21_FailedUpsertRetriedAsCreate ==
  /\ FailedUpsertKeepsLocalOnly
  /\ [][(StepChatOk /\ saveFailed) =>
          /\ saveReq'.branch = "create"
          /\ CarriesWholeBuffer(saveReq'.body.messages, messages')]_vars

\* C21 amended: a failed reconciliation keeps the session local-only, no
\* upsert is issued outside send, and the upsert of the next send re-sends
\* the whole buffer: through the create path when the chat response of that
\* send carried no serverId, and as an update keyed by the serverId of the
\* chat response when it carried one.
C21_FailedUpsertRetriedOnNextSend ==
  /\ FailedUpsertKeepsLocalOnly
  /\ [][(StepChatOk /\ saveFailed) =>
          /\ CarriesWholeBuffer(saveReq'.body.messages, messages')
          /\ IF lastOp' \in NoIdOps \/ ~Truthy(currentChatId')
               THEN /\ saveReq'.branch = "create"
                    /\ saveReq'.body.chat_id = NULL
               ELSE /\ saveReq'.branch = "update"
                    /\ saveReq'.body.chat_id = currentChatId'
                    /\ currentChatId' # currentChatId]_vars

C21_Witness ==
  /\ sendPc = "save_wait"
  /\ saveReq.branch = "create"
  /\ Len(saveReq.body.messages) = 5
  /\ saveReq.body.messages[3].content = Apology
  /\ messages[3] = BotTurn(Apology)

\* C22: a send entered with an empty trimmed text and no attachment, or with
\* no resolvable user identity, changes neither the buffer, the serverId, the
\* title nor the in-flight flag, and makes no network call.
C22_RejectedSendIsNoOp ==
  [][lastOp' \in {"send_empty", "send_anon"} =>
       /\ messages' = messages
       /\ currentChatId' = currentChatId
       /\ sessionChatId' = sessionChatId
       /\ currentTitle' = currentTitle
       /\ loading' = loading
       /\ chatCalls' = chatCalls
       /\ sendPc' = sendPc
       /\ saveReq' = saveReq]_vars

C22_Witness ==
  /\ lastOp = "send_anon"
  /\ me = NULL
  /\ mountPc = "done"
  /\ messages = <<>>
  /\ ~loading
  /\ chatCalls = 0

\* C23: when the chat-completion call of a send fails, send appends the fixed
\* apology turn to the buffer and returns normally: it does not reject to its
\* caller and is no longer in flight.
C23_ChatFailureApologyNoThrow ==
  [][StepChatFail =>
       /\ lastOp' = "send_caught"
       /\ Len(messages') = Len(messages) + 1
       /\ messages'[Len(messages')] = BotTurn(Apology)
       /\ ~loading'
       /\ chatCalls' = 0]_vars

C23_Witness ==
  /\ lastOp = "send_caught"
  /\ Len(messages) = 2
  /\ messages[1].role = "user"
  /\ messages[2] = BotTurn(Apology)
  /\ ~loading

\* C24: when the chat-completion call succeeds with a response whose reply
\* field is missing or is not a string, send appends one bot turn holding the
\* fixed placeholder, appends no apology, and goes on to autoSaveUpsert
\* instead of its failure path.
C24_NonStringReplyGivesPlaceholder ==
  [][(sendPc = "chat_wait" /\ lastOp' \in {"resp_no_reply", "resp_no_id_no_reply"})
       => /\ messages' = Append(messages, BotTurn(NoReplyText))
          /\ sendPc' = "save_wait"
          /\ loading']_vars

C24_Witness ==
  /\ lastOp = "resp_no_reply"
  /\ sendPc = "save_wait"
  /\ Len(messages) = 2
  /\ messages[1].role = "user"
  /\ messages[2] = BotTurn(NoReplyText)

\* the step in which an autoSaveUpsert of the reconciler harness completes
StepUpsertOk == saveReq # NoReq /\ saveReq' = NoReq /\ prevUpsert' = saveReq

C26_ReloadContinuesSameRecord ==
  /\ [][(StepSaveOk /\ Truthy(currentChatId')) =>
          sessionChatId' = currentChatId']_vars
  /\ [][lastOp' = "reload" =>
          /\ sessionChatId' = sessionChatId
          /\ currentChatId' = IF Truthy(sessionChatId) THEN sessionChatId
                               ELSE NULL]_vars
  /\ [][(StepChatOk /\ restored) =>
          /\ saveReq'.branch = "update"
          /\ saveReq'.body.chat_id = currentChatId
          /\ saveReq'.body.title = NULL]_vars

\* C27: only the first navigation of a page load runs bootstrapAuth's identity
\* check; every later navigation issues no api.auth.me call and is decided in
\* the step that starts it, from the AuthState of that moment.
C27_OnlyFirstNavigationBootstraps ==
  /\ [](\A n \in Navs : n > 1 => navMeCalls[n] = 0)
  /\ [][\A n \in Navs :
          (n > 1 /\ navPc[n] = "idle" /\ navPc'[n] # "idle") =>
            /\ navPc'[n] = "done"
            /\ meCalls' = meCalls
            /\ navResult'[n] = guardDecision(navTo'[n], authState.authed)]_vars

\* the step in which a pending api.chats.delete call of deleteChat rejects
StepDeleteFail == deletePc = "delete_wait" /\ lastOp' = "delete_alert"

\* C28: when api.chats.delete fails, deleteChat shows the retry-later alert,
\* leaves the buffer, the serverId and the history list as they were, does not
\* start refreshList and clears the deleting marker.
C28_FailedDeleteChangesNothing ==
  /\ [][(deletePc = "delete_wait" /\ deletePc' # "delete_wait"
           /\ lastOp' \notin {"deleted_open", "deleted_other", "reload"})
          => StepDeleteFail]_vars
  /\ [][StepDeleteFail =>
          /\ messages' = messages
          /\ currentChatId' = currentChatId
          /\ sessionChatId' = sessionChatId
          /\ currentTitle' = currentTitle
          /\ history' = history
          /\ deletePc' = "idle"
          /\ deletingId' = NULL]_vars

C28_Witness ==
  /\ lastOp = "delete_alert"
  /\ deletePc = "idle"
  /\ deletingId = NULL
  /\ currentChatId = "A"
  /\ Len(messages) >= 2
  /\ Len(history) >= 1

\* the full path the login view shown by navigation m has to continue to: the
\* target of the navigation the guard redirected, "/" without one
ResumePath(m) ==
  IF navResult[m].path = "/login" THEN navTo[m].fullPath ELSE "/"

\* C29: a successful login continues, in the same step, with a navigation to
\* the full path of the redirected navigation ("/" when the login view has no
\* or an empty redirect parameter), and the guard allows that navigation
\* because authed is true.
C29_LoginResumesRedirectedTarget ==
  [][lastOp' = "login" =>
       \E n \in Navs :
         /\ navPc[n] = "idle" /\ navPc'[n] = "done"
         /\ \E m \in Navs : ShowsLogin(m) /\ navTo'[n].fullPath = ResumePath(m)
         /\ requiresAuth(navTo'[n].path)
         /\ authState'.authed
         /\ navMeCalls'[n] = 0
         /\ navResult'[n] = Allow]_vars

C29_Witness ==
  /\ lastOp = "login"
  /\ navResult[1] = RedirectLogin("/?from=mail")
  /\ navPc[2] = "done"
  /\ navTo[2] = [path |-> "/", fullPath |-> "/?from=mail"]
  /\ navResult[2] = Allow
  /\ navPc[3] = "idle"

\* C30: authed is true only while a token is stored.
C30_AuthedImpliesToken == authState.authed => getToken # NULL

\* the step in which the refreshList call at the end of a send settles
StepListDone ==
  sendPc = "list_wait" /\ sendPc' = "idle" /\ lastOp' # "reload"

\* C31: an accepted send appends one user turn when it starts and one bot turn
\* when its chat call settles (the reply or the apology); the steps in which
\* its upsert and its history refresh settle append nothing more.
C31_OneUserTurnOneBotTurn ==
  /\ [][(lastOp' = "send" /\ ~loading) =>
          /\ Len(messages') = Len(messages) + 1
          /\ messages'[Len(messages')].role = "user"]_vars
  /\ [][(StepChatOk \/ StepChatFail) =>
          /\ Len(messages') = Len(messages) + 1
          /\ messages'[Len(messages')].role = "bot"]_vars
  /\ [][(StepSaveOk \/ StepSaveFail \/ StepListDone) =>
          messages' = messages]_vars

IsPrefix(p, q) == Len(p) <= Len(q) /\ SubSeq(q, 1, Len(p)) = p

\* C32: every update call of autoSaveUpsert for a serverId carries a turn
\* sequence that starts with the turns the store holds for that serverId from
\* this client's earlier calls, also after a page reload that took the
\* serverId from sessionStorage into an empty buffer.
C32_UpdateExtendsPersistedTurns ==
  saveReq.branch = "update" =>
    IsPrefix(storeTurns[saveReq.body.chat_id], saveReq.body.messages)

\* C33: no api.chats.save call of autoSaveUpsert carries the fixed apology
\* turn of a failed send as an assistant message.
C33_ApologyNeverPersisted ==
  \A i \in 1..Len(saveReq.body.messages) :
    ~(/\ saveReq.body.messages[i].role = "assistant"
      /\ saveReq.body.messages[i].content = Apology)

\* C34: an onLogin whose signInWithEmail gave a user with an unverified email
\* never reaches the backend session call, and when it returns authed is
\* false, no token is stored and Firebase holds no signed-in user, whether
\* sendVerificationEmail resolved or rejected.
C34_UnverifiedLoginNeverAuthenticates ==
  /\ [][(loginPc \in {"resend_wait", "signout_unverified"}) =>
          (loginPc' \in {"resend_wait", "signout_unverified", "idle"})]_vars
  /\ [][(loginPc = "signout_unverified" /\ loginPc' = "idle") =>
          /\ ~authState'.authed
          /\ getToken' = NULL
          /\ fbUser' = NULL]_vars

====
